---------------------------- MODULE Spec2Model ----------------------------
(***************************************************************************)
(* A model of APGpsSteerDirector (sdk/autopilot/directors), the GPS        *)
(* roll-steering director of the autopilot: its engagement state machine   *)
(* (Inactive / Armed / Active), the four guard predicates, the bank-drive  *)
(* sink and the AUTOPILOT NAV1 LOCK indicator.                             *)
(*                                                                         *)
(* The director object is the record `this`; each method is an operator    *)
(* from the object (and the values the call reads from its environment)    *)
(* to the object after the call.  Every call a method makes on one of its  *)
(* collaborators (a guard, a lifecycle callback, the indicator subject,    *)
(* the roll-steer computer, the bank-drive sink) is appended to            *)
(* this.calls, in program order.  The variable `trace` keeps the calls of  *)
(* the last public operation together with the state it started in.        *)
(*                                                                         *)
(* The lifecycle slots onActivate, onArm, onDeactivate and driveBank are   *)
(* assigned (the parent autopilot assigns them when it takes the director  *)
(* in).  Under Spec and SpecNav a lifecycle callback does not call back    *)
(* into the director; under SpecReentrant one of them calls arm(),         *)
(* activate() or deactivate().                                             *)
(***************************************************************************)
EXTENDS Integers, Sequences, FiniteSets, TLC

VARIABLES
    state,                  \* this.state : DirectorState
    isNavLock,              \* this.isNavLock : Subject<boolean>
    callbackState,          \* this.callbackState : APGpsSteerDirectorState
    lnavRollSteerComputer,  \* this.lnavRollSteerComputer
    lnavRollSteerComputerDataProvider,  \* this.lnavRollSteerComputerDataProvider
    simVars,                \* the simulator: VELOCITY WORLD X / Z, PLANE HEADING DEGREES TRUE
    options,                \* the options the director was constructed with
    onActivate,             \* this.onActivate : what the assigned callback does
    onArm,                  \* this.onArm
    onDeactivate,           \* this.onDeactivate
    trace                   \* the last public operation and the calls it made

vars ==
    <<state, isNavLock, callbackState, lnavRollSteerComputer,
      lnavRollSteerComputerDataProvider, simVars, options,
      onActivate, onArm, onDeactivate, trace>>

(***************************************************************************)
(* Bounds of the model.                                                    *)
(***************************************************************************)
\* Finite desired bank angles of a valid roll command range over
\* -MaxBankAngle .. MaxBankAngle, to the left and to the right.
MaxBankAngle == 1
\* The simulation rate factor ranges over 1 .. MaxSimRate.
MaxSimRate == 2
\* A bankRate function returns a rate in 1 .. MaxBankRate; a bankRate number
\* is MaxBankRate.
MaxBankRate == 2
\* A velocity component is 0, 1 or MaxSpeed knots, either way along its axis.
MaxSpeed == 2

(***************************************************************************)
(* DirectorState (PlaneDirector.ts), by the names the director uses.       *)
(***************************************************************************)
Inactive == "Inactive"
Armed == "Armed"
Active == "Active"
DirectorState == {Inactive, Armed, Active}

(***************************************************************************)
(* JavaScript numbers, as far as the director tells them apart: a finite   *)
(* value, NaN, +Infinity, -Infinity; and `undefined` for an argument that  *)
(* is not passed.                                                          *)
(***************************************************************************)
Num(n) == [kind |-> "finite", v |-> n]
NaN == [kind |-> "NaN", v |-> 0]
PosInfinity == [kind |-> "Infinity", v |-> 1]
NegInfinity == [kind |-> "Infinity", v |-> -1]
undefined == [kind |-> "undefined", v |-> 0]

\* isFinite(x) of JavaScript.
isFinite(x) == x.kind = "finite"

\* a * b of JavaScript, for a finite a > 0 (bankRate) and any b (simRate).
Times(a, b) ==
    IF a.kind = "finite" /\ b.kind = "finite" THEN Num(a.v * b.v)
    ELSE IF a.kind = "NaN" \/ b.kind = "NaN" THEN NaN
    ELSE IF (a.kind = "finite" /\ a.v = 0) \/ (b.kind = "finite" /\ b.v = 0) THEN NaN
    ELSE IF (a.v > 0) = (b.v > 0) THEN PosInfinity ELSE NegInfinity

FiniteBankAngles == {Num(b) : b \in ((0 - MaxBankAngle) .. MaxBankAngle) \ {0}}
BankAngles == FiniteBankAngles \cup {NaN, PosInfinity, NegInfinity}
\* The bank angle an invalid roll command is left with.
InvalidBankAngles == {Num(0), NaN}
SimRates == {Num(r) : r \in 1 .. MaxSimRate}
BankRates == {Num(r) : r \in 1 .. MaxBankRate}

(***************************************************************************)
(* The commands.  Of a GPS steering command the director reads isValid     *)
(* only; a roll-steering command is null or {isValid, desiredBankAngle}.   *)
(***************************************************************************)
APGpsSteerDirectorSteerCommand == [isValid : BOOLEAN]
null == [isNull |-> TRUE, isValid |-> FALSE, desiredBankAngle |-> Num(0)]
RollCmd(valid, bank) == [isNull |-> FALSE, isValid |-> valid, desiredBankAngle |-> bank]
LNavRollSteerCommand ==
    {RollCmd(TRUE, bank) : bank \in BankAngles} \cup {RollCmd(FALSE, bank) : bank \in InvalidBankAngles}

(***************************************************************************)
(* Options.  A guard is "default" (the constructor's own predicate) or     *)
(* "custom" (a predicate of the caller, whose answer the model draws       *)
(* afresh at every call); bankRate is a number, a function or undefined.   *)
(***************************************************************************)
GuardOpt == {"default", "custom"}
APGpsSteerDirectorOptions ==
    [bankRate : {[type |-> "undefined", value |-> undefined], [type |-> "function", value |-> undefined]}
                \cup {[type |-> "number", value |-> Num(MaxBankRate)]},
     canArm : GuardOpt, canRemainArmed : GuardOpt,
     canActivate : GuardOpt, canRemainActive : GuardOpt]

(***************************************************************************)
(* The calls a method makes, in order.                                     *)
(***************************************************************************)
\* Each entry: the callee, the boolean it was given or answered (for
\* steerCommand.get(), the isValid of the command it returned), the arguments
\* of a bank drive (in `rate`, for bankRateOpt() and simRate.get(), the number
\* returned), this.state at the time of the call and, for a guard, the
\* callbackState it is passed.
NoCallbackState == [gpsSteerCommand |-> [isValid |-> FALSE], rollSteerCommand |-> null]
Ev(name) ==
    [ev |-> name, ok |-> FALSE, bank |-> undefined, rate |-> undefined,
     at |-> Inactive, callbackState |-> NoCallbackState]
EvBool(name, b) == [Ev(name) EXCEPT !.ok = b]
EvDrive(bank, rate) == [Ev("driveBank") EXCEPT !.bank = bank, !.rate = rate]
EvNumber(name, n) == [Ev(name) EXCEPT !.rate = n]
Called(this, e) == [this EXCEPT !.calls = Append(@, [e EXCEPT !.at = this.state])]
\* The call of a guard: guardFunc(this.apValues, this.callbackState), and its answer.
CalledGuard(this, name, answer) ==
    Called(this, [EvBool(name, answer) EXCEPT !.callbackState = this.callbackState])


(***************************************************************************)
(* What one call reads from the director's environment: the steering       *)
(* command of the source, the roll-steering command the computer arrives   *)
(* at in this tick, the answers of the custom guards, the CDI source and   *)
(* nav-to-nav transfer of apValues, its simulation rate, and the value a   *)
(* bankRate function returns.  A value is drawn only where the call can    *)
(* read it: a guard's answer when that guard is custom and the director    *)
(* is in a state in which the operation evaluates it, the rates when a     *)
(* bank rate is configured.                                                *)
(***************************************************************************)
Answers(opt, read) == IF opt = "custom" /\ read THEN BOOLEAN ELSE {FALSE}

\* The roll commands the computer can arrive at for a steering command: a
\* valid one only for a valid steering command.
RollSteerCommandsFor(steerCommand) ==
    {r \in LNavRollSteerCommand : r.isValid => steerCommand.isValid}

NoRates == [simRate |-> Num(1), bankRateOpt |-> undefined]

ArmEnv ==
    {[steerCommand |-> c, rollSteerCommand |-> null, canArm |-> a,
      canRemainArmed |-> FALSE, canActivate |-> FALSE, canRemainActive |-> FALSE,
      cdiSourceIsGps |-> FALSE, navToNavTransferInProgress |-> FALSE,
      simRate |-> Num(1), bankRateOpt |-> undefined, simVars |-> simVars] :
        c \in APGpsSteerDirectorSteerCommand,
        a \in Answers(options.canArm, state = Inactive)}

\* The default canRemainActive reads the CDI source after a valid roll command
\* only, and the nav-to-nav transfer only when the source is not GPS; the
\* rates are read only when a finite bank angle is driven.
UpdateEnv ==
    LET engaged == state # Inactive
        apValues(r) == IF options.canRemainActive = "default" /\ engaged /\ r.isValid
                       THEN {<<TRUE, FALSE>>, <<FALSE, TRUE>>, <<FALSE, FALSE>>}
                       ELSE {<<FALSE, FALSE>>}
        rates(r) == IF engaged /\ r.isValid /\ isFinite(r.desiredBankAngle)
                    THEN [simRate : IF options.bankRate.type = "undefined" THEN {Num(1)} ELSE SimRates,
                          bankRateOpt : IF options.bankRate.type = "function" THEN BankRates ELSE {undefined}]
                    ELSE {NoRates}
        guards == Answers(options.canRemainArmed, state = Armed)
                    \X Answers(options.canActivate, state = Armed)
                    \X Answers(options.canRemainActive, engaged)
    IN  UNION {
          {[steerCommand |-> c.steerCommand, rollSteerCommand |-> c.rollSteerCommand, canArm |-> FALSE,
            canRemainArmed |-> g[1], canActivate |-> g[2], canRemainActive |-> g[3],
            cdiSourceIsGps |-> ap[1], navToNavTransferInProgress |-> ap[2],
            simRate |-> rt.simRate, bankRateOpt |-> rt.bankRateOpt, simVars |-> simVars] :
              g \in guards, ap \in apValues(c.rollSteerCommand), rt \in rates(c.rollSteerCommand)} :
          c \in UNION {[steerCommand : {s}, rollSteerCommand : RollSteerCommandsFor(s)] :
                          s \in APGpsSteerDirectorSteerCommand}}

(***************************************************************************)
(* LNavRollSteerComputer (sdk/autopilot/lnav).  update() leaves in         *)
(* steerCommand the roll command of this tick, which is invalid when the   *)
(* steering command is; reset() clears the computer's smoothing state.     *)
(***************************************************************************)
LNavRollSteerComputerInit == [steerCommand |-> RollCmd(FALSE, Num(0)), isReset |-> TRUE]

LNavRollSteerComputerUpdate(this, env) ==
    Called([this EXCEPT !.lnavRollSteerComputer =
                [steerCommand |-> env.rollSteerCommand, isReset |-> FALSE]],
           Ev("lnavRollSteerComputer.update"))

LNavRollSteerComputerReset(this) ==
    Called([this EXCEPT !.lnavRollSteerComputer.isReset = TRUE],
           Ev("lnavRollSteerComputer.reset"))

(***************************************************************************)
(* DirectorLNavRollSteerComputerDataProvider.  The simulator's velocity is *)
(* along one of the axes (north, east, south, west) or zero, in whole      *)
(* knots, or is not a number.                                              *)
(***************************************************************************)
NullNumber == [kind |-> "null", v |-> 0]
Speeds == {Num(v) : v \in {0 - MaxSpeed, 0 - 1, 0, 1, MaxSpeed}}
Headings == {Num(45), Num(350)}
Velocities ==
    {<<x, Num(0)>> : x \in Speeds \cup {NaN}} \cup {<<Num(0), z>> : z \in Speeds}
SimVarValues ==
    {[velocityX |-> v[1], velocityZ |-> v[2], heading |-> h] : v \in Velocities, h \in Headings}
\* The aircraft at rest.
SimVarsAtRest == [velocityX |-> Num(0), velocityZ |-> Num(0), heading |-> Num(45)]

\* Math.hypot(x, y), where the result is a whole number.
Hypot(x, y) ==
    IF x.kind = "NaN" \/ y.kind = "NaN" THEN NaN
    ELSE LET sq == x.v * x.v + y.v * y.v
             abs(n) == IF n < 0 THEN 0 - n ELSE n
         IN  Num(CHOOSE r \in 0 .. (abs(x.v) + abs(y.v)) : r * r = sq)

\* Math.atan2(ew, ns) * Avionics.Utils.RAD2DEG, for a velocity along an axis:
\* in (-180, 180], clockwise from north.
Atan2Deg(ew, ns) ==
    IF ew.kind = "NaN" \/ ns.kind = "NaN" THEN NaN
    ELSE CASE ew.v = 0 /\ ns.v >= 0 -> Num(0)
           [] ew.v = 0 /\ ns.v < 0 -> Num(180)
           [] ew.v > 0 /\ ns.v = 0 -> Num(90)
           [] ew.v < 0 /\ ns.v = 0 -> Num(0 - 90)

\* a % n of JavaScript: the sign of the result is the sign of a.
Remainder(a, n) == IF a >= 0 THEN a % n ELSE 0 - ((0 - a) % n)

\* MathUtils.normalizeAngleDeg(angle): the angle in [0, 360).
normalizeAngleDeg(angle) ==
    IF angle.kind = "NaN" THEN NaN
    ELSE Num(Remainder(Remainder(angle.v, 360) + 360, 360))

\* gs > limit of JavaScript: false for NaN.
GreaterThan(a, limit) == a.kind = "finite" /\ a.v > limit

\* update() that takes the velocity track whenever the aircraft moves at all.
DataProviderUpdate_TrackFromZero(this, env) ==
    LET velocityEW == env.simVars.velocityX
        velocityNS == env.simVars.velocityZ
        gs == Hypot(velocityEW, velocityNS)
        s1 == Called(this, Ev("lnavRollSteerComputerDataProvider.update"))
    IN  [s1 EXCEPT !.lnavRollSteerComputerDataProvider =
            IF GreaterThan(gs, 0)
            THEN [gs |-> gs,
                  track |-> normalizeAngleDeg(Atan2Deg(velocityEW, velocityNS)),
                  heading |-> env.simVars.heading]
            ELSE [gs |-> gs, track |-> env.simVars.heading, heading |-> env.simVars.heading]]

\* DirectorLNavRollSteerComputerDataProvider.update().  In the else branch the
\* heading read for the track is the one stored as heading (`heading ?? ...`).
DataProviderUpdate(this, env) ==
    LET velocityEW == env.simVars.velocityX
        velocityNS == env.simVars.velocityZ
        gs == Hypot(velocityEW, velocityNS)
        s1 == Called(this, Ev("lnavRollSteerComputerDataProvider.update"))
    IN  [s1 EXCEPT !.lnavRollSteerComputerDataProvider =
            IF GreaterThan(gs, 1)
            THEN [gs |-> gs,
                  track |-> normalizeAngleDeg(Atan2Deg(velocityEW, velocityNS)),
                  heading |-> env.simVars.heading]
            ELSE [gs |-> gs, track |-> env.simVars.heading, heading |-> env.simVars.heading]]

(***************************************************************************)
(* The constructor: the bank-drive function and the four guards.           *)
(***************************************************************************)
\* driveBankFunc, one of the three closures of the switch on typeof bankRateOpt.
\* (`&& this.driveBank` is true: the driveBank slot is assigned.)
simRateGet(this, env) == Called(this, EvNumber("apValues.simRate.get", env.simRate))

\* driveBankFunc that passes the configured rate without the simulation rate.
driveBankFunc_UnscaledRate(this, env, bank) ==
    CASE options.bankRate.type = "number" ->
            IF isFinite(bank)
            THEN Called(simRateGet(this, env), EvDrive(bank, options.bankRate.value))
            ELSE this
      [] options.bankRate.type = "function" ->
            IF isFinite(bank)
            THEN LET s1 == Called(this, EvNumber("bankRateOpt", env.bankRateOpt))
                 IN  Called(simRateGet(s1, env), EvDrive(bank, env.bankRateOpt))
            ELSE this
      [] OTHER ->
            IF isFinite(bank)
            THEN Called(this, EvDrive(bank, undefined))
            ELSE this

driveBankFunc(this, env, bank) ==
    CASE options.bankRate.type = "number" ->
            IF isFinite(bank)
            THEN Called(simRateGet(this, env),
                        EvDrive(bank, Times(options.bankRate.value, env.simRate)))
            ELSE this
      [] options.bankRate.type = "function" ->
            IF isFinite(bank)
            THEN LET s1 == Called(this, EvNumber("bankRateOpt", env.bankRateOpt))
                 IN  Called(simRateGet(s1, env),
                            EvDrive(bank, Times(env.bankRateOpt, env.simRate)))
            ELSE this
      [] OTHER ->
            IF isFinite(bank)
            THEN Called(this, EvDrive(bank, undefined))
            ELSE this

canArmFunc(this, env) ==
    IF options.canArm = "custom" THEN env.canArm
    ELSE this.callbackState.gpsSteerCommand.isValid

canRemainArmedFunc(this, env) ==
    IF options.canRemainArmed = "custom" THEN env.canRemainArmed
    ELSE this.callbackState.gpsSteerCommand.isValid

canActivateFunc(this, env) ==
    IF options.canActivate = "custom" THEN env.canActivate
    ELSE this.callbackState.rollSteerCommand # null
         /\ this.callbackState.rollSteerCommand.isValid

\* The default canRemainActive that looks at the roll command only.
canRemainActiveFunc_ValidityOnly(this, env) ==
    IF options.canRemainActive = "custom" THEN env.canRemainActive
    ELSE this.callbackState.rollSteerCommand # null
         /\ this.callbackState.rollSteerCommand.isValid

\* What the default canRemainActive reads of apValues while it is evaluated:
\* the CDI source once the roll command is non-null and valid, and the
\* nav-to-nav transfer once that source is not GPS.
canRemainActiveReads(this, env) ==
    IF /\ options.canRemainActive = "default"
       /\ this.callbackState.rollSteerCommand # null
       /\ this.callbackState.rollSteerCommand.isValid
    THEN LET s1 == Called(this, EvBool("apValues.cdiSource.get", env.cdiSourceIsGps))
         IN  IF env.cdiSourceIsGps THEN s1
             ELSE Called(s1, EvBool("apValues.navToNavTransferInProgress",
                                    env.navToNavTransferInProgress))
    ELSE this

canRemainActiveFunc(this, env) ==
    IF options.canRemainActive = "custom" THEN env.canRemainActive
    ELSE this.callbackState.rollSteerCommand # null
         /\ this.callbackState.rollSteerCommand.isValid
         /\ (env.cdiSourceIsGps \/ env.navToNavTransferInProgress)

\* Subject.set(value) (sdk/sub/Subject): the subscribers are notified when the
\* value set differs from the value held.
SubjectNotifies(current, value) == current # value

\* this.isNavLock.set(value) that writes the SimVar at every call.
isNavLockSet_WritesAlways(this, value) ==
    LET s1 == Called([this EXCEPT !.isNavLock = value], EvBool("isNavLock.set", value))
    IN  Called(s1, EvBool("SimVar.SetSimVarValue", value))

\* this.isNavLock.set(value), with the subscription the constructor makes:
\* a notification writes the new value to AUTOPILOT NAV1 LOCK.
isNavLockSet(this, value) ==
    LET s1 == Called([this EXCEPT !.isNavLock = value], EvBool("isNavLock.set", value))
    IN  IF SubjectNotifies(this.isNavLock, value)
        THEN Called(s1, EvBool("SimVar.SetSimVarValue", value))
        ELSE s1

(***************************************************************************)
(* The methods.                                                            *)
(***************************************************************************)
updateCallbackState(this, env, rollSteerCommand) ==
    LET s1 == Called(this, EvBool("steerCommand.get", env.steerCommand.isValid))
    IN  [s1 EXCEPT !.callbackState =
            [gpsSteerCommand |-> env.steerCommand, rollSteerCommand |-> rollSteerCommand]]

(***************************************************************************)
(* The lifecycle callbacks.  An assigned callback either leaves the        *)
(* director alone or calls one of its public methods; a method called      *)
(* from inside a callback finds callbacks that leave the director alone.   *)
(***************************************************************************)
\* A callback that does not call the director.
NoCall == [calls |-> "nothing", steerCommand |-> [isValid |-> FALSE]]
\* A callback that calls the method `op`; steerCommand is what the source
\* holds at that moment, which arm() reads.
Reentry(op, steerCommand) == [calls |-> op, steerCommand |-> steerCommand]
LifecycleCallbacks ==
    {NoCall} \cup {Reentry(op, [isValid |-> FALSE]) : op \in {"activate", "deactivate"}}
             \cup {Reentry("arm", c) : c \in APGpsSteerDirectorSteerCommand}

\* What arm() called from a callback reads; a custom canArm answers true.
ReentryEnv(steerCommand) ==
    [steerCommand |-> steerCommand, rollSteerCommand |-> null, canArm |-> TRUE,
     canRemainArmed |-> FALSE, canActivate |-> FALSE, canRemainActive |-> FALSE,
     cdiSourceIsGps |-> FALSE, navToNavTransferInProgress |-> FALSE,
     simRate |-> Num(1), bankRateOpt |-> undefined, simVars |-> simVars]

\* The three callbacks that leave the director alone, and the assignments in
\* which one of the three calls the director.
NoCalls == [onActivate |-> NoCall, onArm |-> NoCall, onDeactivate |-> NoCall]
ReentrantCallbacks ==
    {[NoCalls EXCEPT ![slot] = c] :
        slot \in {"onActivate", "onArm", "onDeactivate"}, c \in LifecycleCallbacks \ {NoCall}}

RECURSIVE activate(_), arm(_, _), deactivate(_)

\* `this.onX && this.onX()`: the callback in slot `name` is invoked and
\* returns; the calls of a method it calls lie between "reenter" and "return".
Callback(this, name) ==
    LET s1 == Called(this, Ev(name))
        callback == this[name]
        inside == [Called(s1, Ev("reenter")) EXCEPT
                      !.onActivate = NoCall, !.onArm = NoCall, !.onDeactivate = NoCall]
        after == CASE callback.calls = "activate" -> activate(inside)
                   [] callback.calls = "deactivate" -> deactivate(inside)
                   [] callback.calls = "arm" -> arm(inside, ReentryEnv(callback.steerCommand))
                   [] OTHER -> inside
    IN  IF callback.calls = "nothing"
        THEN s1
        ELSE [Called(after, Ev("return")) EXCEPT
                 !.onActivate = this.onActivate, !.onArm = this.onArm,
                 !.onDeactivate = this.onDeactivate]

\* activate() without its last statement, this.isNavLock.set(true).
activate_NoNavLock(this) ==
    LET s1 == [this EXCEPT !.state = Active]
    IN  Callback(s1, "onActivate")

\* activate() that acts only on an Armed director.
activate_OnlyFromArmed(this) ==
    IF this.state = Armed
    THEN LET s1 == [this EXCEPT !.state = Active]
             s2 == Callback(s1, "onActivate")
         IN  isNavLockSet(s2, TRUE)
    ELSE this

activate(this) ==
    LET s1 == [this EXCEPT !.state = Active]
        s2 == Callback(s1, "onActivate")
    IN  isNavLockSet(s2, TRUE)

\* arm() that does not look at the answer of canArm.
arm_IgnoresCanArm(this, env) ==
    IF this.state = Inactive
    THEN LET s1 == updateCallbackState(this, env, null)
             can == canArmFunc(s1, env)
             s2 == CalledGuard(s1, "canArm", can)
             s3 == [s2 EXCEPT !.state = Armed]
             s4 == Callback(s3, "onArm")
         IN  isNavLockSet(s4, TRUE)
    ELSE this

\* arm() without the test of this.state.
arm_NoStateCheck(this, env) ==
    LET s1 == updateCallbackState(this, env, null)
        can == canArmFunc(s1, env)
        s2 == CalledGuard(s1, "canArm", can)
    IN  IF can
        THEN LET s3 == [s2 EXCEPT !.state = Armed]
                 s4 == Callback(s3, "onArm")
             IN  isNavLockSet(s4, TRUE)
        ELSE s2

\* arm() that passes the computer's roll command to the snapshot instead of null.
arm_PassesRollCommand(this, env) ==
    IF this.state = Inactive
    THEN LET s1 == updateCallbackState(this, env, this.lnavRollSteerComputer.steerCommand)
             can == canArmFunc(s1, env)
             s2 == CalledGuard(s1, "canArm", can)
         IN  IF can
             THEN LET s3 == [s2 EXCEPT !.state = Armed]
                      s4 == Callback(s3, "onArm")
                  IN  isNavLockSet(s4, TRUE)
             ELSE s2
    ELSE this

arm(this, env) ==
    IF this.state = Inactive
    THEN LET s1 == updateCallbackState(this, env, null)
             can == canArmFunc(s1, env)
             s2 == CalledGuard(s1, "canArm", can)
         IN  IF can
             THEN LET s3 == [s2 EXCEPT !.state = Armed]
                      s4 == Callback(s3, "onArm")
                  IN  isNavLockSet(s4, TRUE)
             ELSE s2
    ELSE this

\* deactivate() that clears the indicator before it invokes the callback.
deactivate_IndicatorBeforeCallback(this) ==
    LET s1 == [this EXCEPT !.state = Inactive]
        s2 == isNavLockSet(s1, FALSE)
        s3 == Callback(s2, "onDeactivate")
    IN  LNavRollSteerComputerReset(s3)

\* deactivate() that returns at once when the director is already Inactive.
deactivate_OnlyWhenEngaged(this) ==
    IF this.state = Inactive
    THEN this
    ELSE LET s1 == [this EXCEPT !.state = Inactive]
             s2 == Callback(s1, "onDeactivate")
             s3 == isNavLockSet(s2, FALSE)
         IN  LNavRollSteerComputerReset(s3)

deactivate(this) ==
    LET s1 == [this EXCEPT !.state = Inactive]
        s2 == Callback(s1, "onDeactivate")
        s3 == isNavLockSet(s2, FALSE)
    IN  LNavRollSteerComputerReset(s3)

\* tryActivate() that also waits for a valid roll command.
tryActivate_WaitsForValidRoll(this, env) ==
    LET can == canActivateFunc(this, env)
        s1 == CalledGuard(this, "canActivate", can)
    IN  IF can /\ this.lnavRollSteerComputer.steerCommand.isValid THEN activate(s1) ELSE s1

\* tryActivate() that activates whatever canActivate answers.
tryActivate_Unconditional(this, env) ==
    LET can == canActivateFunc(this, env)
        s1 == CalledGuard(this, "canActivate", can)
    IN  activate(s1)

\* tryActivate() that also drives the bank when it activates.
tryActivate_Drives(this, env) ==
    LET can == canActivateFunc(this, env)
        s1 == CalledGuard(this, "canActivate", can)
        rollSteerCommand == this.lnavRollSteerComputer.steerCommand
    IN  IF can
        THEN IF rollSteerCommand.isValid /\ isFinite(rollSteerCommand.desiredBankAngle)
             THEN driveBankFunc(activate(s1), env, rollSteerCommand.desiredBankAngle)
             ELSE activate(s1)
        ELSE s1

tryActivate(this, env) ==
    LET can == canActivateFunc(this, env)
        s1 == CalledGuard(this, "canActivate", can)
    IN  IF can THEN activate(s1) ELSE s1

\* The Armed block that disengages by itself instead of calling deactivate().
updateArmed_DisengagesInline(this, env) ==
    IF this.state = Armed
    THEN LET can == canRemainArmedFunc(this, env)
             s1 == CalledGuard(this, "canRemainArmed", can)
         IN  IF ~can
             THEN [returned |-> TRUE,
                   this |-> isNavLockSet([s1 EXCEPT !.state = Inactive], FALSE)]
             ELSE [returned |-> FALSE, this |-> tryActivate(s1, env)]
    ELSE [returned |-> FALSE, this |-> this]

\* The Armed block that goes on to tryActivate() after it has deactivated.
updateArmed_GoesOnAfterDeactivate(this, env) ==
    IF this.state = Armed
    THEN LET can == canRemainArmedFunc(this, env)
             s1 == CalledGuard(this, "canRemainArmed", can)
             s2 == IF ~can THEN deactivate(s1) ELSE s1
         IN  [returned |-> FALSE, this |-> tryActivate(s2, env)]
    ELSE [returned |-> FALSE, this |-> this]

\* The Armed block entered by an Inactive director as well: a retry.
updateArmed_RetriesWhenInactive(this, env) ==
    IF this.state # Active
    THEN LET can == canRemainArmedFunc(this, env)
             s1 == CalledGuard(this, "canRemainArmed", can)
         IN  IF ~can
             THEN [returned |-> TRUE, this |-> deactivate(s1)]
             ELSE [returned |-> FALSE, this |-> tryActivate(s1, env)]
    ELSE [returned |-> FALSE, this |-> this]

\* The Armed block of update(): the object after it, and whether update() returned in it.
updateArmed(this, env) ==
    IF this.state = Armed
    THEN LET can == canRemainArmedFunc(this, env)
             s1 == CalledGuard(this, "canRemainArmed", can)
         IN  IF ~can
             THEN [returned |-> TRUE, this |-> deactivate(s1)]
             ELSE [returned |-> FALSE, this |-> tryActivate(s1, env)]
    ELSE [returned |-> FALSE, this |-> this]

\* The Active block without `return` after deactivate() and without the else.
updateActive_NoReturn(this, env) ==
    IF this.state = Active
    THEN LET can == canRemainActiveFunc(this, env)
             s1 == CalledGuard(canRemainActiveReads(this, env), "canRemainActive", can)
             s2 == IF ~can THEN deactivate(s1) ELSE s1
             rollSteerCommand == s2.lnavRollSteerComputer.steerCommand
         IN  IF rollSteerCommand.isValid /\ isFinite(rollSteerCommand.desiredBankAngle)
             THEN driveBankFunc(s2, env, rollSteerCommand.desiredBankAngle)
             ELSE s2
    ELSE this

\* The Active block without the test of rollSteerCommand.isValid.
updateActive_NoValidCheck(this, env) ==
    IF this.state = Active
    THEN LET can == canRemainActiveFunc(this, env)
             s1 == CalledGuard(canRemainActiveReads(this, env), "canRemainActive", can)
         IN  IF ~can
             THEN deactivate(s1)
             ELSE LET rollSteerCommand == s1.lnavRollSteerComputer.steerCommand
                  IN  IF isFinite(rollSteerCommand.desiredBankAngle)
                      THEN driveBankFunc(s1, env, rollSteerCommand.desiredBankAngle)
                      ELSE s1
    ELSE this

\* The Active block that also deactivates on an invalid roll command.
updateActive_DeactivatesOnInvalid(this, env) ==
    IF this.state = Active
    THEN LET can == canRemainActiveFunc(this, env)
             s1 == CalledGuard(canRemainActiveReads(this, env), "canRemainActive", can)
             rollSteerCommand == s1.lnavRollSteerComputer.steerCommand
         IN  IF ~can \/ ~rollSteerCommand.isValid
             THEN deactivate(s1)
             ELSE IF isFinite(rollSteerCommand.desiredBankAngle)
                  THEN driveBankFunc(s1, env, rollSteerCommand.desiredBankAngle)
                  ELSE s1
    ELSE this

\* The Active block of update().
updateActive(this, env) ==
    IF this.state = Active
    THEN LET can == canRemainActiveFunc(this, env)
             s1 == CalledGuard(canRemainActiveReads(this, env), "canRemainActive", can)
         IN  IF ~can
             THEN deactivate(s1)
             ELSE LET rollSteerCommand == s1.lnavRollSteerComputer.steerCommand
                  IN  IF rollSteerCommand.isValid /\ isFinite(rollSteerCommand.desiredBankAngle)
                      THEN driveBankFunc(s1, env, rollSteerCommand.desiredBankAngle)
                      ELSE s1
    ELSE this

\* update() that refreshes the snapshot before it runs the provider and the computer.
update_SnapshotFirst(this, env) ==
    LET s0 == updateCallbackState(this, env, this.lnavRollSteerComputer.steerCommand)
        s1 == DataProviderUpdate(s0, env)
        s2 == LNavRollSteerComputerUpdate(s1, env)
        a == updateArmed(s2, env)
    IN  IF a.returned THEN a.this ELSE updateActive(a.this, env)

\* update() in which a tick that starts Armed ends with the Armed block.
update_ArmedBlockEndsTick(this, env) ==
    LET s0 == DataProviderUpdate(this, env)
        s1 == LNavRollSteerComputerUpdate(s0, env)
        s2 == updateCallbackState(s1, env, s1.lnavRollSteerComputer.steerCommand)
        a == updateArmed(s2, env)
    IN  IF a.returned \/ s2.state = Armed THEN a.this ELSE updateActive(a.this, env)

update(this, env) ==
    LET s0 == DataProviderUpdate(this, env)
        s1 == LNavRollSteerComputerUpdate(s0, env)
        s2 == updateCallbackState(s1, env, s1.lnavRollSteerComputer.steerCommand)
        a == updateArmed(s2, env)
    IN  IF a.returned THEN a.this ELSE updateActive(a.this, env)

(***************************************************************************)
(* The state machine: the director after construction, and one action per  *)
(* public operation.                                                       *)
(***************************************************************************)
This ==
    [state |-> state, isNavLock |-> isNavLock, callbackState |-> callbackState,
     lnavRollSteerComputer |-> lnavRollSteerComputer,
     lnavRollSteerComputerDataProvider |-> lnavRollSteerComputerDataProvider,
     onActivate |-> onActivate, onArm |-> onArm, onDeactivate |-> onDeactivate,
     calls |-> <<>>]

\* The fields after the public operation `op` has returned the object `after`.
Commit(op, after) ==
    \E this \in {after} :
        /\ state' = this.state
        /\ isNavLock' = this.isNavLock
        /\ callbackState' = this.callbackState
        /\ lnavRollSteerComputer' = this.lnavRollSteerComputer
        /\ lnavRollSteerComputerDataProvider' = this.lnavRollSteerComputerDataProvider
        /\ trace' = [op |-> op, state |-> state, isNavLock |-> isNavLock, calls |-> this.calls]
        /\ UNCHANGED <<options, onActivate, onArm, onDeactivate>>

\* The director constructed with one of the options `opts`, the simulator
\* showing one of `sims`, and then given one of the `callbacks`.
Constructed(opts, sims, callbacks) ==
    /\ options \in opts
    /\ \E c \in callbacks :
          onActivate = c.onActivate /\ onArm = c.onArm /\ onDeactivate = c.onDeactivate
    /\ simVars \in sims
    /\ lnavRollSteerComputerDataProvider =
          [gs |-> NullNumber, track |-> NullNumber, heading |-> NullNumber]
    /\ state = Inactive
    /\ isNavLock = FALSE
    /\ \E steerCommand \in APGpsSteerDirectorSteerCommand :
          callbackState = [gpsSteerCommand |-> steerCommand, rollSteerCommand |-> null]
    /\ lnavRollSteerComputer = LNavRollSteerComputerInit
    /\ trace = [op |-> "constructor", state |-> Inactive, isNavLock |-> FALSE, calls |-> <<>>]

\* Spec: every combination of options, the aircraft at rest.
Init == Constructed(APGpsSteerDirectorOptions, {SimVarsAtRest}, {NoCalls})

Activate == Commit("activate", activate(This)) /\ UNCHANGED simVars

Arm == \E env \in ArmEnv : Commit("arm", arm(This, env)) /\ UNCHANGED simVars

Deactivate == Commit("deactivate", deactivate(This)) /\ UNCHANGED simVars

Update == \E env \in UpdateEnv : Commit("update", update(This, env)) /\ UNCHANGED simVars

Next == Activate \/ Arm \/ Deactivate \/ Update

Spec == Init /\ [][Next]_vars

(***************************************************************************)
(* SpecNav: the director with its default options in a moving aircraft:    *)
(* an update() finds the simulator at any velocity and heading.            *)
(***************************************************************************)
DefaultOptions ==
    [bankRate |-> [type |-> "undefined", value |-> undefined],
     canArm |-> "default", canRemainArmed |-> "default",
     canActivate |-> "default", canRemainActive |-> "default"]

InitNav == Constructed({DefaultOptions}, SimVarValues, {NoCalls})

UpdateNav ==
    \E sim \in SimVarValues, env \in UpdateEnv :
        /\ simVars' = sim
        /\ Commit("update", update(This, [env EXCEPT !.simVars = sim]))

NextNav == Activate \/ Arm \/ Deactivate \/ UpdateNav

SpecNav == InitNav /\ [][NextNav]_vars

\* SpecReentrant: default options, the aircraft at rest, and one lifecycle
\* callback that calls arm(), activate() or deactivate() of the director.
InitReentrant == Constructed({DefaultOptions}, {SimVarsAtRest}, ReentrantCallbacks)

SpecReentrant == InitReentrant /\ [][Next]_vars

(***************************************************************************)
(* Properties.  They are stated over the last public operation: trace.op,  *)
(* the state it started in (trace.state, trace.isNavLock), the calls it    *)
(* made (trace.calls) and the state it left.                               *)
(***************************************************************************)
CallsOf(name) == {i \in DOMAIN trace.calls : trace.calls[i].ev = name}
Count(name) == Cardinality(CallsOf(name))
\* The guard `name` was evaluated in the last operation and answered b.
Answered(name, b) == \E i \in CallsOf(name) : trace.calls[i].ok = b
\* The values this.state went through in the last operation.
StatePath ==
    <<trace.state>> \o [i \in 1 .. Len(trace.calls) |-> trace.calls[i].at] \o <<state>>
\* The changes of this.state in the last operation.
Transitions ==
    {<<StatePath[i], StatePath[i + 1]>> : i \in 1 .. (Len(StatePath) - 1)}
        \ {<<s, s>> : s \in DirectorState}

\* C1: after any sequence of arm(), activate(), deactivate() and update(), the
\* indicator isNavLock is true if and only if the state is not Inactive.
C1_NavLockIffEngaged == isNavLock <=> (state # Inactive)

\* C1 witness: an update() that took an Armed director to Active, indicator set.
C1_Witness == trace.op = "update" /\ trace.state = Armed /\ state = Active /\ isNavLock

\* C2 as stated: the only changes of state are Inactive->Armed, Armed->Active,
\* Armed->Inactive and Active->Inactive; Active is entered from Armed only.
C2_Original ==
    Transitions \subseteq
        {<<Inactive, Armed>>, <<Armed, Active>>, <<Armed, Inactive>>, <<Active, Inactive>>}

\* C2 amended: the changes of state are Inactive->Armed, Armed->Active,
\* Armed->Inactive, Active->Inactive and Inactive->Active; only activate()
\* makes the last one, so arm() and update() enter Active from Armed only,
\* Armed is entered from Inactive only, and Active never falls back to Armed.
C2_TransitionsAmended ==
    /\ Transitions \subseteq
          {<<Inactive, Armed>>, <<Armed, Active>>, <<Armed, Inactive>>,
           <<Active, Inactive>>, <<Inactive, Active>>}
    /\ <<Inactive, Active>> \in Transitions => trace.op = "activate"

\* C2 witness: activate() called on an Inactive director left it Active.
C2_Witness == trace.op = "activate" /\ trace.state = Inactive /\ state = Active

\* C3: driveBank is called only inside update(), only at a point where the
\* state is Active and after canRemainActive has answered true in that call.
C3_DriveOnlyWhileActive ==
    \A i \in CallsOf("driveBank") :
        /\ trace.op = "update"
        /\ trace.calls[i].at = Active
        /\ state = Active
        /\ \E j \in CallsOf("canRemainActive") : j < i /\ trace.calls[j].ok

\* C3 witness: an update() of an Active director drove the bank.
C3_Witness == trace.op = "update" /\ trace.state = Active /\ Count("driveBank") = 1

\* C4: a bank drive passes the desired bank angle of the roll command computed
\* in that update(), which is valid, and the angle is finite; an invalid roll
\* command or a non-finite angle is never forwarded, whatever the bank rate
\* option.
C4_DriveOnlyValidFinite ==
    /\ \A i \in CallsOf("driveBank") :
          /\ trace.op = "update"
          /\ lnavRollSteerComputer.steerCommand.isValid
          /\ trace.calls[i].bank = lnavRollSteerComputer.steerCommand.desiredBankAngle
          /\ isFinite(trace.calls[i].bank)
    /\ (trace.op = "update"
          /\ (~lnavRollSteerComputer.steerCommand.isValid
              \/ ~isFinite(lnavRollSteerComputer.steerCommand.desiredBankAngle)))
       => Count("driveBank") = 0

\* C4 witness: an update() that kept the director Active with a valid roll
\* command whose bank angle is not finite, and drove nothing.
C4_Witness ==
    /\ trace.op = "update" /\ state = Active
    /\ lnavRollSteerComputer.steerCommand.isValid
    /\ lnavRollSteerComputer.steerCommand.desiredBankAngle = NaN
    /\ Count("driveBank") = 0

\* C5: one update() calls driveBank at most once, also when it starts Armed
\* and activates in the same call.
C5_DriveAtMostOnce == Count("driveBank") <= 1

\* C5 witness: an update() that started Armed, activated and drove the bank.
C5_Witness ==
    /\ trace.op = "update" /\ trace.state = Armed /\ state = Active
    /\ Count("onActivate") = 1 /\ Count("driveBank") = 1

\* C6: deactivate() from any state leaves the state Inactive, invokes
\* onDeactivate exactly once, sets the indicator false and resets the roll-steer
\* computer once; a call made while already Inactive does all of it again.
C6_DeactivateAlways ==
    trace.op = "deactivate" =>
        /\ state = Inactive
        /\ Count("onDeactivate") = 1
        /\ Count("isNavLock.set") = 1 /\ Answered("isNavLock.set", FALSE)
        /\ ~isNavLock
        /\ Count("lnavRollSteerComputer.reset") = 1
        /\ lnavRollSteerComputer.isReset

\* C6 witness: deactivate() called on a director that was already Inactive,
\* with the callback fired and the computer reset in that call.
C6_Witness ==
    /\ trace.op = "deactivate" /\ trace.state = Inactive /\ ~trace.isNavLock
    /\ Count("onDeactivate") = 1 /\ Count("lnavRollSteerComputer.reset") = 1

\* C7: arm() called while Inactive evaluates canArm once; if it answers true
\* the state becomes Armed, onArm fires once and the indicator becomes true; if
\* it answers false the state and the indicator are unchanged, the indicator is
\* not set and onArm does not fire.
C7_ArmFromInactive ==
    (trace.op = "arm" /\ trace.state = Inactive) =>
        /\ Count("canArm") = 1
        /\ Answered("canArm", TRUE) =>
              state = Armed /\ Count("onArm") = 1 /\ isNavLock
        /\ Answered("canArm", FALSE) =>
              /\ state = Inactive /\ isNavLock = trace.isNavLock
              /\ Count("onArm") = 0 /\ Count("isNavLock.set") = 0

\* C7 witness: arm() rejected by the default canArm on an invalid steering
\* command; the director stayed Inactive.
C7_Witness ==
    /\ trace.op = "arm" /\ trace.state = Inactive /\ options.canArm = "default"
    /\ ~callbackState.gpsSteerCommand.isValid
    /\ Answered("canArm", FALSE) /\ state = Inactive

\* C8: arm() called while Armed or Active changes nothing: state, indicator and
\* callbackState stay as they are, canArm is not evaluated and no callback
\* fires (the operation makes no call at all).
C8_ArmNoOpWhenEngaged ==
    [][(trace'.op = "arm" /\ state \in {Armed, Active}) =>
          /\ state' = state
          /\ isNavLock' = isNavLock
          /\ callbackState' = callbackState
          /\ lnavRollSteerComputer' = lnavRollSteerComputer
          /\ trace'.calls = <<>>]_vars

\* C8 witness: arm() was called on an Active director, which stayed Active.
C8_Witness ==
    trace.op = "arm" /\ trace.state = Active /\ state = Active /\ trace.calls = <<>>

\* C9: an update() that starts Armed evaluates canRemainArmed; it makes the
\* transition Armed->Active (activate() runs, onActivate fires) if and only if
\* canRemainArmed and canActivate both answer true in that call; with
\* canRemainArmed true and canActivate false the director stays Armed; with
\* canRemainArmed false it deactivates without evaluating canActivate.
C9_ArmedTick ==
    (trace.op = "update" /\ trace.state = Armed) =>
        /\ Count("canRemainArmed") = 1
        /\ Count("onActivate") <= 1
        /\ (Count("onActivate") = 1 /\ <<Armed, Active>> \in Transitions)
              <=> (Answered("canRemainArmed", TRUE) /\ Answered("canActivate", TRUE))
        /\ <<Armed, Active>> \in Transitions <=> Count("onActivate") = 1
        /\ (Answered("canRemainArmed", TRUE) /\ Answered("canActivate", FALSE)) =>
              state = Armed /\ Transitions = {} /\ Count("onDeactivate") = 0
        /\ Answered("canRemainArmed", FALSE) =>
              /\ state = Inactive /\ Transitions = {<<Armed, Inactive>>}
              /\ Count("onDeactivate") = 1 /\ Count("canActivate") = 0

\* C9 witness: an update() of an Armed director in which both guards answered
\* true and the director went to Active.
C9_Witness ==
    /\ trace.op = "update" /\ trace.state = Armed
    /\ Answered("canRemainArmed", TRUE) /\ Answered("canActivate", TRUE)
    /\ <<Armed, Active>> \in Transitions

\* C10: an update() that starts Active ends Inactive if and only if
\* canRemainActive answered false in that call, and otherwise ends Active,
\* whether or not the roll command is valid.
C10_ActiveTick ==
    (trace.op = "update" /\ trace.state = Active) =>
        /\ Count("canRemainActive") = 1
        /\ state = Inactive <=> Answered("canRemainActive", FALSE)
        /\ state = Active <=> Answered("canRemainActive", TRUE)

\* C10 witness: an update() of an Active director whose roll command was
\* invalid while canRemainActive answered true; the director stayed Active.
C10_Witness ==
    /\ trace.op = "update" /\ trace.state = Active
    /\ ~lnavRollSteerComputer.steerCommand.isValid
    /\ Answered("canRemainActive", TRUE) /\ state = Active

\* The guards evaluated in the last operation.
Guards == {"canArm", "canRemainArmed", "canActivate", "canRemainActive"}
GuardCalls == UNION {CallsOf(g) : g \in Guards}

\* C11: activate() called in any state sets the state to Active, fires
\* onActivate once and sets the indicator true, and evaluates no guard.
C11_ActivateUnconditional ==
    trace.op = "activate" =>
        /\ state = Active
        /\ Count("onActivate") = 1
        /\ Count("isNavLock.set") = 1 /\ Answered("isNavLock.set", TRUE)
        /\ isNavLock
        /\ GuardCalls = {}
        /\ Count("onArm") = 0 /\ Count("onDeactivate") = 0

\* C11 witness: activate() called on a director that was already Active fired
\* onActivate again and left it Active.
C11_Witness ==
    /\ trace.op = "activate" /\ trace.state = Active
    /\ Count("onActivate") = 1 /\ state = Active

\* C12: AUTOPILOT NAV1 LOCK is written only on a change of state: every write
\* follows a change of this.state made in the same operation, with no other
\* write since that change, and writes whether the new state is engaged; an
\* operation that leaves the state as it was (an update() that keeps it, an
\* arm() that is rejected or ignored, deactivate() while Inactive, activate()
\* while Active) writes nothing.
C12_IndicatorWrittenOnEdgesOnly ==
    /\ Transitions = {} => Count("SimVar.SetSimVarValue") = 0
    /\ \A i \in CallsOf("SimVar.SetSimVarValue") :
          /\ trace.calls[i].ok = (trace.calls[i].at # Inactive)
          /\ \E j \in 1 .. i :
                /\ StatePath[j] # trace.calls[i].at
                /\ \A k \in (j + 1) .. (i + 1) : StatePath[k] = trace.calls[i].at
                /\ \A k \in j .. (i - 1) : k \notin CallsOf("SimVar.SetSimVarValue")

\* C12 witness: deactivate() on a director that was already Inactive called
\* isNavLock.set(false) and wrote nothing to the SimVar.
C12_Witness ==
    /\ trace.op = "deactivate" /\ trace.state = Inactive
    /\ Count("isNavLock.set") = 1 /\ Count("SimVar.SetSimVarValue") = 0

\* C13: arm() evaluates no guard but canArm; from Inactive it evaluates canArm
\* once, on a snapshot whose steering command is the one just read from the
\* source and whose roll command is null; it never leaves the director Active,
\* and when canArm answers true it leaves it Armed.
C13_ArmEvaluatesOnlyCanArm ==
    trace.op = "arm" =>
        /\ GuardCalls = CallsOf("canArm")
        /\ Count("onActivate") = 0
        /\ trace.state = Inactive =>
              /\ Count("canArm") = 1 /\ Count("steerCommand.get") = 1
              /\ \A c \in CallsOf("canArm") : \E g \in CallsOf("steerCommand.get") :
                    /\ g < c
                    /\ trace.calls[c].callbackState =
                          [gpsSteerCommand |-> [isValid |-> trace.calls[g].ok],
                           rollSteerCommand |-> null]
              /\ state # Active
              /\ Answered("canArm", TRUE) => state = Armed

\* C13 witness: arm() succeeded and left the director Armed while the
\* computer held a valid roll command from an earlier tick, on which the
\* default canActivate would have answered true.
C13_Witness ==
    /\ trace.op = "arm" /\ trace.state = Inactive /\ state = Armed
    /\ options.canActivate = "default"
    /\ ~lnavRollSteerComputer.isReset /\ lnavRollSteerComputer.steerCommand.isValid
    /\ callbackState.rollSteerCommand = null


(***************************************************************************)
(* The navigation data provider (SpecNav).                                 *)
(***************************************************************************)
\* The speed of a velocity along an axis, and its compass bearing.
AxisSpeed(sim) ==
    LET abs(n) == IF n < 0 THEN 0 - n ELSE n
    IN  abs(sim.velocityX.v) + abs(sim.velocityZ.v)
CompassBearing(sim) ==
    CASE sim.velocityZ.v > 0 -> 0
      [] sim.velocityX.v > 0 -> 90
      [] sim.velocityZ.v < 0 -> 180
      [] sim.velocityX.v < 0 -> 270

\* C14: after every update() of the data provider, with a ground speed above
\* 1 kt the track is the bearing of the velocity, within [0, 360); with a
\* ground speed of at most 1 kt, exactly 1 kt included, the track is the
\* heading reading; in both cases the heading is the raw heading reading.
C14_TrackAndHeading ==
    (trace.op = "update" /\ isFinite(simVars.velocityX) /\ isFinite(simVars.velocityZ)) =>
        /\ Count("lnavRollSteerComputerDataProvider.update") = 1
        /\ lnavRollSteerComputerDataProvider.gs = Num(AxisSpeed(simVars))
        /\ lnavRollSteerComputerDataProvider.heading = simVars.heading
        /\ AxisSpeed(simVars) > 1 =>
              /\ lnavRollSteerComputerDataProvider.track = Num(CompassBearing(simVars))
              /\ lnavRollSteerComputerDataProvider.track.v \in 0 .. 359
        /\ AxisSpeed(simVars) <= 1 =>
              lnavRollSteerComputerDataProvider.track = simVars.heading

\* C14 witness: an update() with the aircraft moving east at exactly 1 kt
\* on a heading of 350: the track is the heading, not the bearing 90.
C14_Witness ==
    /\ trace.op = "update"
    /\ simVars.velocityX = Num(1) /\ simVars.velocityZ = Num(0)
    /\ lnavRollSteerComputerDataProvider.gs = Num(1)
    /\ lnavRollSteerComputerDataProvider.track = simVars.heading
    /\ simVars.heading = Num(350)

\* The positions in StatePath at which this.state changed to Inactive; the
\* first call made after the change at position i is trace.calls[i].
Disengagements ==
    {i \in 1 .. (Len(StatePath) - 1) : StatePath[i] # Inactive /\ StatePath[i + 1] = Inactive}

\* C15: every change of this.state to Inactive, in deactivate() called from
\* outside or in update() after a failed remain-guard, is the one of
\* deactivate(): it is followed at once by the onDeactivate callback, the
\* indicator is cleared and the roll-steer computer is reset, each exactly
\* once in the operation, and the computer is left reset.
C15_DisengageThroughDeactivate ==
    /\ Cardinality(Disengagements) <= 1
    /\ \A i \in Disengagements :
          /\ trace.op \in {"deactivate", "update"}
          /\ i \in CallsOf("onDeactivate")
          /\ Count("onDeactivate") = 1
          /\ Count("lnavRollSteerComputer.reset") = 1
          /\ \E r \in CallsOf("lnavRollSteerComputer.reset") : r > i
          /\ \E n \in CallsOf("isNavLock.set") : n > i /\ ~trace.calls[n].ok
          /\ lnavRollSteerComputer.isReset
          /\ state = Inactive

\* C15 witness: an update() in which canRemainArmed failed disengaged an
\* Armed director, with one onDeactivate and one reset of the computer
\* that update() had just run.
C15_Witness ==
    /\ trace.op = "update" /\ trace.state = Armed /\ state = Inactive
    /\ Answered("canRemainArmed", FALSE)
    /\ Count("onDeactivate") = 1 /\ Count("lnavRollSteerComputer.reset") = 1
    /\ \E u \in CallsOf("lnavRollSteerComputer.update") :
          \E r \in CallsOf("lnavRollSteerComputer.reset") : u < r
    /\ lnavRollSteerComputer.isReset

\* C16: in every update() the data provider is updated first, then the
\* computer, then the snapshot is refreshed from the steering command read in
\* this call and the roll command the computer arrived at in this call; every
\* guard is evaluated after that and on that snapshot, and a bank angle is
\* driven after the guards and is the one of this call's roll command.
C16_SenseComputeRefreshGuardAct ==
    trace.op = "update" =>
        /\ Len(trace.calls) >= 3
        /\ trace.calls[1].ev = "lnavRollSteerComputerDataProvider.update"
        /\ trace.calls[2].ev = "lnavRollSteerComputer.update"
        /\ trace.calls[3].ev = "steerCommand.get"
        /\ Count("lnavRollSteerComputerDataProvider.update") = 1
        /\ Count("lnavRollSteerComputer.update") = 1
        /\ Count("steerCommand.get") = 1
        /\ callbackState = [gpsSteerCommand |-> [isValid |-> trace.calls[3].ok],
                            rollSteerCommand |-> lnavRollSteerComputer.steerCommand]
        /\ \A g \in GuardCalls : g > 3 /\ trace.calls[g].callbackState = callbackState
        /\ \A d \in CallsOf("driveBank") :
              /\ \A g \in GuardCalls : g < d
              /\ trace.calls[d].bank = lnavRollSteerComputer.steerCommand.desiredBankAngle

\* C16 witness: an update() of an Armed director with the default guards went
\* through all three guards and drove the bank, in this order, after the
\* provider, the computer and the snapshot.
C16_Witness ==
    /\ trace.op = "update" /\ trace.state = Armed /\ state = Active
    /\ options.canRemainArmed = "default" /\ options.canActivate = "default"
    /\ options.canRemainActive = "default"
    /\ Len(trace.calls) >= 3 /\ trace.calls[3].ev = "steerCommand.get" /\ trace.calls[3].ok
    /\ \E a \in CallsOf("canRemainArmed"), b \in CallsOf("canActivate"),
          c \in CallsOf("canRemainActive"), d \in CallsOf("driveBank") :
            3 < a /\ a < b /\ b < c /\ c < d

\* C17: an update() in which a remain-guard answers false deactivates and
\* ends with that: after canRemainArmed answered false neither canActivate
\* nor canRemainActive is evaluated, onActivate does not fire and no bank is
\* driven; after canRemainActive answered false no bank is driven; in both
\* cases the reset of deactivate() is the last call of the update().
C17_FailedRemainGuardStopsTick ==
    trace.op = "update" =>
        /\ (trace.state = Armed /\ Answered("canRemainArmed", FALSE)) =>
              /\ Count("canActivate") = 0 /\ Count("canRemainActive") = 0
              /\ Count("onActivate") = 0 /\ Count("driveBank") = 0
        /\ Answered("canRemainActive", FALSE) => Count("driveBank") = 0
        /\ (Answered("canRemainArmed", FALSE) \/ Answered("canRemainActive", FALSE)) =>
              /\ state = Inactive
              /\ Count("onDeactivate") = 1
              /\ trace.calls[Len(trace.calls)].ev = "lnavRollSteerComputer.reset"

\* C17 witness: canRemainArmed failed in a tick whose roll command was valid
\* and finite, so that the default canActivate would have answered true and
\* the Active block would have driven the bank.
C17_Witness ==
    /\ trace.op = "update" /\ trace.state = Armed /\ state = Inactive
    /\ Answered("canRemainArmed", FALSE)
    /\ options.canActivate = "default" /\ options.canRemainActive = "custom"
    /\ callbackState.rollSteerCommand.isValid
    /\ isFinite(callbackState.rollSteerCommand.desiredBankAngle)
    /\ Count("driveBank") = 0

\* C18: with a bank rate configured, every drive is passed the configured
\* rate times the simulation rate read for that drive, the rate being the
\* configured number or what the configured function returned when called
\* for that drive; with no bank rate configured the drive is passed the bank
\* angle alone, and neither rate is read.
C18_DriveRate ==
    \A d \in CallsOf("driveBank") :
        CASE options.bankRate.type = "number" ->
                /\ d > 1 /\ trace.calls[d - 1].ev = "apValues.simRate.get"
                /\ Count("bankRateOpt") = 0
                /\ trace.calls[d].rate = Num(options.bankRate.value.v * trace.calls[d - 1].rate.v)
          [] options.bankRate.type = "function" ->
                /\ d > 2 /\ trace.calls[d - 1].ev = "apValues.simRate.get"
                /\ trace.calls[d - 2].ev = "bankRateOpt"
                /\ Count("bankRateOpt") = Count("driveBank")
                /\ trace.calls[d].rate = Num(trace.calls[d - 2].rate.v * trace.calls[d - 1].rate.v)
          [] OTHER ->
                /\ trace.calls[d].rate = undefined
                /\ Count("bankRateOpt") = 0 /\ Count("apValues.simRate.get") = 0

\* C18 witness: the bank-rate function returned MaxBankRate at a simulation
\* rate of MaxSimRate, and the drive was passed their product.
C18_Witness ==
    /\ options.bankRate.type = "function"
    /\ \E d \in CallsOf("driveBank") :
          /\ d > 2
          /\ trace.calls[d - 2].ev = "bankRateOpt" /\ trace.calls[d - 2].rate = Num(MaxBankRate)
          /\ trace.calls[d - 1].ev = "apValues.simRate.get" /\ trace.calls[d - 1].rate = Num(MaxSimRate)
          /\ trace.calls[d].rate = Num(MaxBankRate * MaxSimRate)

\* The roll command of the snapshot passed to guard call g is non-null and valid.
RollCommandValid(g) ==
    /\ trace.calls[g].callbackState.rollSteerCommand # null
    /\ trace.calls[g].callbackState.rollSteerCommand.isValid
\* The answers of the default canArm, canRemainArmed and canActivate.
ValidityDefaults ==
    /\ \A g \in CallsOf("canArm") : options.canArm = "default" =>
          (trace.calls[g].ok <=> trace.calls[g].callbackState.gpsSteerCommand.isValid)
    /\ \A g \in CallsOf("canRemainArmed") : options.canRemainArmed = "default" =>
          (trace.calls[g].ok <=> trace.calls[g].callbackState.gpsSteerCommand.isValid)
    /\ \A g \in CallsOf("canActivate") : options.canActivate = "default" =>
          (trace.calls[g].ok <=> RollCommandValid(g))

\* C19 as stated: whichever guards are overridden, each default guard answers
\* by validity alone: canArm and canRemainArmed true exactly on a valid
\* steering command, canActivate and canRemainActive true exactly on a
\* non-null, valid roll command.
C19_Original ==
    /\ ValidityDefaults
    /\ \A g \in CallsOf("canRemainActive") : options.canRemainActive = "default" =>
          (trace.calls[g].ok <=> RollCommandValid(g))

\* The default canRemainActive, evaluated in call g, found in apValues a CDI
\* source of type GPS or, the source being another, a nav-to-nav transfer
\* in progress.
NavSourceAllows(g) ==
    \/ /\ g > 1
       /\ trace.calls[g - 1].ev = "apValues.cdiSource.get" /\ trace.calls[g - 1].ok
    \/ /\ g > 2
       /\ trace.calls[g - 2].ev = "apValues.cdiSource.get" /\ ~trace.calls[g - 2].ok
       /\ trace.calls[g - 1].ev = "apValues.navToNavTransferInProgress" /\ trace.calls[g - 1].ok

\* C19 amended: whichever guards are overridden, the default canArm and
\* canRemainArmed answer true exactly on a valid steering command and the
\* default canActivate exactly on a non-null, valid roll command; the default
\* canRemainActive answers true exactly when the roll command is non-null and
\* valid and, in addition, the CDI source is of type GPS or a nav-to-nav
\* transfer is in progress, which it reads only after a valid roll command.
C19_GuardDefaults ==
    /\ ValidityDefaults
    /\ \A g \in CallsOf("canRemainActive") : options.canRemainActive = "default" =>
          /\ trace.calls[g].ok <=> (RollCommandValid(g) /\ NavSourceAllows(g))
          /\ RollCommandValid(g) <=>
                (g > 1 /\ trace.calls[g - 1].ev \in
                    {"apValues.cdiSource.get", "apValues.navToNavTransferInProgress"})

\* C19 witness: with canRemainActive alone left at its default, it answered
\* false on a valid roll command, the CDI source not being GPS and no
\* transfer being in progress, and the Active director deactivated.
C19_Witness ==
    /\ trace.op = "update" /\ trace.state = Active /\ state = Inactive
    /\ options.canRemainActive = "default"
    /\ options.canArm = "custom" /\ options.canRemainArmed = "custom"
    /\ options.canActivate = "custom"
    /\ \E g \in CallsOf("canRemainActive") :
          /\ ~trace.calls[g].ok /\ RollCommandValid(g)
          /\ g > 2 /\ trace.calls[g - 2].ev = "apValues.cdiSource.get"
          /\ trace.calls[g - 1].ev = "apValues.navToNavTransferInProgress"

\* C20: an update() that starts Inactive runs the provider, the computer and
\* the refresh of the snapshot and nothing else: it evaluates no guard, fires
\* no lifecycle callback, drives no bank, does not set the indicator and
\* leaves the director Inactive; so only arm() and activate() take the
\* director out of Inactive.
C20_NoRetry ==
    /\ (trace.op = "update" /\ trace.state = Inactive) =>
          /\ state = Inactive
          /\ GuardCalls = {}
          /\ Count("onArm") = 0 /\ Count("onActivate") = 0 /\ Count("onDeactivate") = 0
          /\ Count("driveBank") = 0
          /\ Count("isNavLock.set") = 0 /\ Count("SimVar.SetSimVarValue") = 0
          /\ ~isNavLock
          /\ Len(trace.calls) = 3
    /\ (trace.state = Inactive /\ state # Inactive) => trace.op \in {"arm", "activate"}

\* C20 witness: an update() of an Inactive director with all guards at their
\* defaults and a valid steering and roll command, on which the default
\* canArm, canRemainArmed and canActivate answer true; the director is
\* still Inactive.
C20_Witness ==
    /\ trace.op = "update" /\ trace.state = Inactive /\ state = Inactive
    /\ options.canArm = "default" /\ options.canRemainArmed = "default"
    /\ options.canActivate = "default"
    /\ callbackState.gpsSteerCommand.isValid
    /\ callbackState.rollSteerCommand.isValid
    /\ isFinite(callbackState.rollSteerCommand.desiredBankAngle)
    /\ ~lnavRollSteerComputer.isReset

\* C21: an update() that starts Armed and activates goes on to the Active
\* block in the same call: canRemainActive is evaluated once, after
\* onActivate, with the director Active.  When it answers true the director
\* stays Active and the bank is driven exactly if the roll command is valid
\* and finite; when it answers false the director deactivates at once, so
\* that the one update() fires onActivate, then onDeactivate, drives nothing
\* and ends Inactive.
C21_ActivatingTickFallsThrough ==
    (trace.op = "update" /\ trace.state = Armed /\ Count("onActivate") > 0) =>
        /\ Count("onActivate") = 1 /\ Count("canRemainActive") = 1
        /\ \A a \in CallsOf("onActivate"), c \in CallsOf("canRemainActive") :
              a < c /\ trace.calls[c].at = Active
        /\ Answered("canRemainActive", TRUE) =>
              /\ state = Active /\ Count("onDeactivate") = 0
              /\ Count("driveBank") = 1 <=>
                    /\ lnavRollSteerComputer.steerCommand.isValid
                    /\ isFinite(lnavRollSteerComputer.steerCommand.desiredBankAngle)
        /\ Answered("canRemainActive", FALSE) =>
              /\ state = Inactive /\ Count("onDeactivate") = 1 /\ Count("driveBank") = 0
              /\ \A a \in CallsOf("onActivate"), d \in CallsOf("onDeactivate") : a < d

\* C21 witness: one update() of an Armed director fired onActivate and then
\* onDeactivate, and left it Inactive.
C21_Witness ==
    /\ trace.op = "update" /\ trace.state = Armed /\ state = Inactive
    /\ \E a \in CallsOf("onActivate"), c \in CallsOf("canRemainActive"),
          d \in CallsOf("onDeactivate") : a < c /\ c < d /\ ~trace.calls[c].ok

(***************************************************************************)
(* Lifecycle callbacks that call back into the director (SpecReentrant).   *)
(***************************************************************************)
LifecycleCalls == CallsOf("onActivate") \cup CallsOf("onArm") \cup CallsOf("onDeactivate")
\* The state that the method invoking the callback `name` has just written.
StateWrittenBefore(name) ==
    CASE name = "onActivate" -> Active
      [] name = "onArm" -> Armed
      [] name = "onDeactivate" -> Inactive
\* The position at which the callback invoked at position i has returned.
Returned(i) ==
    IF i < Len(trace.calls) /\ trace.calls[i + 1].ev = "reenter"
    THEN CHOOSE r \in CallsOf("return") :
            r > i /\ \A q \in CallsOf("return") : q > i => r <= q
    ELSE i

\* C22: in arm(), activate() and deactivate(), called from outside, from
\* update() or from a callback, the callback is invoked with this.state
\* already at its new value, and the indicator is set next after the
\* callback has returned.  So when the callback of an operation called from
\* outside has called a method of the director, the operation ends in the
\* state which that method left and with the indicator which the operation
\* itself writes, whether or not the two agree.
C22_StateBeforeCallbackIndicatorAfter ==
    /\ \A i \in LifecycleCalls :
          /\ trace.calls[i].at = StateWrittenBefore(trace.calls[i].ev)
          /\ Returned(i) < Len(trace.calls)
          /\ trace.calls[Returned(i) + 1].ev = "isNavLock.set"
          /\ trace.calls[Returned(i) + 1].ok = (trace.calls[i].ev # "onDeactivate")
    /\ \A r \in CallsOf("return") : trace.op \in {"arm", "activate", "deactivate"} =>
          /\ state = trace.calls[r].at
          /\ isNavLock = (trace.op # "deactivate")

\* C22 witness: deactivate() whose onDeactivate callback called arm(): the
\* director is left Armed with the indicator false.
C22_Witness ==
    /\ trace.op = "deactivate" /\ onDeactivate.calls = "arm"
    /\ Count("reenter") = 1 /\ Count("onArm") = 1
    /\ state = Armed /\ ~isNavLock

\* C23: an update() of an Armed director in which canRemainArmed and
\* canActivate answer true goes on to ask canRemainActive, and when that
\* answers true as well the update() leaves it Active; an update() of an
\* Active director in which canRemainActive answers true leaves it Active;
\* and an Active director ceases to be Active only by deactivate() or by an
\* update() in which canRemainActive answers false.
C23_ActiveWithinOneTickAndKept ==
    /\ (/\ trace.op = "update" /\ trace.state = Armed
        /\ Answered("canRemainArmed", TRUE) /\ Answered("canActivate", TRUE)) =>
          /\ Count("canRemainActive") = 1
          /\ Answered("canRemainActive", TRUE) => state = Active
    /\ (trace.op = "update" /\ trace.state = Active /\ Answered("canRemainActive", TRUE)) =>
          state = Active
    /\ (trace.state = Active /\ state # Active) =>
          \/ trace.op = "deactivate"
          \/ trace.op = "update" /\ Answered("canRemainActive", FALSE)

\* C23 witness: the three guards, overridden by the caller, answered true
\* on an invalid roll command in one update() of an Armed director, which
\* is Active at its end without a bank having been driven.
C23_Witness ==
    /\ trace.op = "update" /\ trace.state = Armed /\ state = Active
    /\ Answered("canRemainArmed", TRUE) /\ Answered("canActivate", TRUE)
    /\ Answered("canRemainActive", TRUE)
    /\ ~lnavRollSteerComputer.steerCommand.isValid
    /\ Count("driveBank") = 0
=============================================================================
